---- MODULE Spec2Model ----
(***************************************************************************)
(* The search page of the Web Brain Project: the Search component (search  *)
(* term, confirmed search, result selection, path request) together with   *)
(* the SearchPageChart component (manual node selection and the derived    *)
(* set of highlighted nodes) and the provider that loads the universal     *)
(* tree.                                                                   *)
(*                                                                         *)
(* Strings are sequences of one-character strings over a small alphabet    *)
(* that has upper case, lower case and white space, so that toLowerCase,   *)
(* trim and includes are computed, not assumed.                            *)
(***************************************************************************)
EXTENDS Integers, Sequences, FiniteSets, TLC

VARIABLES isLoadingQuery, errorQuery, universalTree,
          searchTerm, searchResults, isSearchActive, selectedResultId,
          pathTree, selectedNodeIds, inFlight, treeRequests, last

vars == <<isLoadingQuery, errorQuery, universalTree,
          searchTerm, searchResults, isSearchActive, selectedResultId,
          pathTree, selectedNodeIds, inFlight, treeRequests, last>>

\* ------------------------------------------------------------------ bounds
\* longest text the user types into the search box
MaxQueryLen == 2
\* most path requests awaiting their response at the same time
MaxInFlight == 2

\* ------------------------------------------------------------- JS strings
\* characters the user can type: an upper-case letter and a blank
QueryChars == {"A", " "}

\* String.prototype.toLowerCase on one character
LowerChar(c) ==
  CASE c = "A" -> "a"
    [] c = "B" -> "b"
    [] OTHER -> c

\* String.prototype.toLowerCase
toLowerCase(s) == [i \in 1..Len(s) |-> LowerChar(s[i])]

IsWhiteSpace(c) == c = " "

RECURSIVE trimStart(_)
trimStart(s) ==
  IF s # <<>> /\ IsWhiteSpace(Head(s)) THEN trimStart(Tail(s)) ELSE s

RECURSIVE trimEnd(_)
trimEnd(s) ==
  IF s # <<>> /\ IsWhiteSpace(s[Len(s)])
  THEN trimEnd(SubSeq(s, 1, Len(s) - 1))
  ELSE s

\* a blank check that forgets to trim
trimNothing(s) == s

\* String.prototype.trim
trim(s) == trimEnd(trimStart(s))

\* String.prototype.includes: q occurs in s at some offset
includes(s, q) ==
  \E off \in 0..(Len(s) - Len(q)) :
    \A k \in 1..Len(q) : s[off + k] = q[k]

\* every text of at most n characters the user can have in the search box
RECURSIVE TextsUpTo(_)
TextsUpTo(n) ==
  IF n = 0 THEN {<<>>}
  ELSE LET shorter == TextsUpTo(n - 1)
       IN shorter \cup {Append(t, c) : t \in shorter, c \in QueryChars}

Queries == TextsUpTo(MaxQueryLen)

\* ------------------------------------------------------------ graph model
\* the hardcoded id of the entry node "E"
startNodeId == "E"

\* absent selection (useState<string | null>(null))
NullId == "null"

\* absent tree (pathTree === null, universalTree === undefined): an optional
\* value is a sequence of length at most one
Null == <<>>
Some(v) == <<v>>
IsNull(o) == o = <<>>
Value(o) == o[1]

WBNode(id, type, name) == [id |-> id, type |-> type, name |-> name]
Link(id, source, target) == [id |-> id, source |-> source, target |-> target]

\* the tree served by GET /tree: a skill and a url whose name contains the
\* name of the skill in the other case, the skill being prerequisite to the url
mockTreeData ==
  [nodes |-> << WBNode("1", "skill", <<"A">>),
                WBNode("2", "url",   <<"b", "a", " ", "a">>) >>,
   links |-> << Link("1", "1", "2") >>]

NodeIds == {mockTreeData.nodes[i].id : i \in 1..Len(mockTreeData.nodes)}

\* the trees GET /paths/:startId/:targetId can answer with: the path through
\* the url node that the mock service returns, or a tree without nodes
mockPath(startId, targetId) ==
  [nodes |-> << WBNode(startId, "skill", <<"B">>),
                WBNode("2", "url", <<"b", "a", " ", "a">>),
                WBNode(targetId, "skill", <<"A">>) >>,
   links |-> << Link("path-link-1", startId, "2"),
                Link("path-link-2", "2", targetId) >>]

emptyTree == [nodes |-> <<>>, links |-> <<>>]

PathAnswers(targetId) == {mockPath(startNodeId, targetId), emptyTree}

\* ways a path request fails: fetch rejects, status not ok, body not JSON
FailureKinds == {"network", "status", "body"}

\* ---------------------------------------------------------- array helpers
\* Array.prototype.filter with a predicate given as the set of kept elements
RECURSIVE filter(_, _)
filter(arr, keep) ==
  IF arr = <<>> THEN <<>>
  ELSE IF Head(arr) \in keep
       THEN <<Head(arr)>> \o filter(Tail(arr), keep)
       ELSE filter(Tail(arr), keep)

\* Array.prototype.map((node) => node.id)
ids(nodes) == [i \in 1..Len(nodes) |-> nodes[i].id]

\* the elements of an array
Elems(arr) == {arr[i] : i \in 1..Len(arr)}

\* spreading both arrays without going through a Set
uniqKeepingRepeats(arr) == arr

\* [...new Set(arr)]: first occurrences, in insertion order
RECURSIVE uniq(_)
uniq(arr) ==
  IF arr = <<>> THEN <<>>
  ELSE LET front == uniq(SubSeq(arr, 1, Len(arr) - 1))
           x == arr[Len(arr)]
       IN IF x \in Elems(front) THEN front ELSE Append(front, x)

\* ------------------------------------------------------------ search engine
\* the earlier matching rule, which looked at skill nodes only
nodeIsMatchSkillOnly(node, query) ==
  IF node.type = "skill"
  THEN includes(toLowerCase(node.name), toLowerCase(query))
  ELSE FALSE

nodeIsMatch(node, query) ==
  includes(toLowerCase(node.name), toLowerCase(query))

\* a search that lists the matches last to first
searchNodesReversed(query, tree) ==
  LET found == filter(tree.nodes,
                      {n \in Elems(tree.nodes) : nodeIsMatch(n, query)})
  IN [i \in 1..Len(found) |-> found[Len(found) + 1 - i]]

searchNodes(query, tree) ==
  filter(tree.nodes, {n \in Elems(tree.nodes) : nodeIsMatch(n, query)})

\* ------------------------------------------------------- derived rendering
\* SearchPageChart props: highlightedNodeIds
highlightedNodeIds == ids(searchResults)

pathNodeIds == IF IsNull(pathTree) THEN <<>> ELSE ids(Value(pathTree).nodes)

\* a chart that adds the path to the other highlights instead of replacing
\* them
selectedIdsForAddingPath(pathIds, selected, highlighted) ==
  uniq(pathIds \o selected \o highlighted)

\* the ids SearchPageChart computes from its pathTree prop (as node ids),
\* its selectedNodeIds state and its highlightedNodeIds prop
selectedIdsFor(pathIds, selected, highlighted) ==
  IF Len(pathIds) > 0
  THEN pathIds
  ELSE uniq(selected \o highlighted)

\* the earlier chart, which combined clicks and search and knew no path
allSelectedNodeIdsWithoutPath == uniq(selectedNodeIds \o highlightedNodeIds)

\* the ids handed to D3Chart as selected: the effective highlighted set
allSelectedNodeIds ==
  selectedIdsFor(pathNodeIds, selectedNodeIds, highlightedNodeIds)

\* fill colours of common-constants
ACTIVE_SKILL_FILL == "hsl(315 100% 60%)"
INACTIVE_SKILL_FILL == "hsl(240 100% 30%)"
ACTIVE_MODULE_FILL == "hsl(180 100% 50%)"
INACTIVE_MODULE_FILL == "hsl(60 10% 20%)"

\* a fill that knows selected skills only
getNodeFillSkillOnly(node, selectedIds) ==
  IF node.type = "skill" /\ node.id \in Elems(selectedIds)
  THEN ACTIVE_SKILL_FILL
  ELSE IF node.type = "url" THEN INACTIVE_MODULE_FILL
  ELSE INACTIVE_SKILL_FILL

\* D3Chart: the fill of a node from its type and the selected ids
getNodeFill(node, selectedIds) ==
  IF node.type = "skill"
  THEN (IF node.id \in Elems(selectedIds)
        THEN ACTIVE_SKILL_FILL ELSE INACTIVE_SKILL_FILL)
  ELSE IF node.type = "url"
  THEN (IF node.id \in Elems(selectedIds)
        THEN ACTIVE_MODULE_FILL ELSE INACTIVE_MODULE_FILL)
  ELSE INACTIVE_SKILL_FILL

\* the circles of the chart: SearchPageChart hands the universal tree and
\* allSelectedNodeIds to D3Chart, which draws every node of the tree and sets
\* its fill in the effect that follows each render
circles ==
  IF IsNull(universalTree)
  THEN <<>>
  ELSE [i \in 1..Len(Value(universalTree).nodes) |->
          [id |-> Value(universalTree).nodes[i].id,
           type |-> Value(universalTree).nodes[i].type,
           fill |-> getNodeFill(Value(universalTree).nodes[i],
                                allSelectedNodeIds)]]

\* a results section without the message for an empty result list
resultsSectionWithoutMessage ==
  IF isSearchActive
  THEN [heading |-> "results found", count |-> Len(searchResults),
        noResultsFound |-> FALSE]
  ELSE [heading |-> "Recommended Skills", count |-> 0,
        noResultsFound |-> FALSE]

\* what the results section of the card shows
resultsSection ==
  IF isSearchActive
  THEN [heading |-> "results found", count |-> Len(searchResults),
        noResultsFound |-> (Len(searchResults) = 0)]
  ELSE [heading |-> "Recommended Skills", count |-> 0,
        noResultsFound |-> FALSE]

\* a card that always renders the button
generatePathButtonAlwaysShown == TRUE

\* the Generate Learning Path button is rendered
generatePathButtonShown == isSearchActive /\ Len(searchResults) > 0

\* ------------------------------------------------------------------ history
\* last records the handler that ran last and its argument (for handleSearch:
\* whether a path was highlighted when it ran; for onChange: whether a search
\* was active when it ran); for two clicks in a row on the same node it keeps
\* the set of selected ids from before the first click.
\*   req     "waiting" from the click that issues a path request until a user
\*           event or the response to that request; "answered" at that
\*           response if no user event came in between
\*   stale   the response that just arrived belongs to a request that a
\*           confirmed search or a newer request has superseded
\*   logged  the error the handler passed to console.error, "" if none
\*   thrown  an error left the handler
Op(op, arg) ==
  [op |-> op, arg |-> arg, n |-> 0, pre |-> {}, req |-> "", stale |-> FALSE,
   logged |-> "", thrown |-> FALSE]

\* a pending path request; stale records that a confirmed search or a newer
\* request came after it
Request(targetId) == [target |-> targetId, stale |-> FALSE]

\* every pending request is superseded
Superseded(requests) ==
  [k \in 1..Len(requests) |-> [requests[k] EXCEPT !.stale = TRUE]]

\* the history entry of the response to the i-th pending request
Response(op, i) ==
  [Op(op, inFlight[i].target) EXCEPT
     !.req = IF last.req = "waiting"
             THEN (IF i = Len(inFlight) THEN "answered" ELSE "waiting")
             ELSE "",
     !.stale = inFlight[i].stale]

\* ------------------------------------------------------------------- init
\* GET /tree requests made by the load: useQuery runs fetchUniversalTree
\* when the provider mounts
initialTreeRequests == 1

Init ==
  /\ isLoadingQuery = TRUE
  /\ errorQuery = FALSE
  /\ universalTree = Null
  /\ searchTerm = <<>>
  /\ searchResults = <<>>
  /\ isSearchActive = FALSE
  /\ selectedResultId = NullId
  /\ pathTree = Null
  /\ selectedNodeIds = <<>>
  /\ inFlight = <<>>
  /\ treeRequests = initialTreeRequests
  /\ last = Op("mount", "")

\* --------------------------------------------------------------- provider
\* what the force simulation does to the node objects it is given: it writes
\* the index of each node into the node
simulated(nodes) ==
  [i \in 1..Len(nodes) |->
     [id |-> nodes[i].id, type |-> nodes[i].type, name |-> nodes[i].name,
      index |-> i - 1]]

\* a chart that hands the node objects of its data to the simulation
ForceGraphInPlace(data) ==
  [data |-> [nodes |-> simulated(data.nodes), links |-> data.links],
   nodes |-> simulated(data.nodes)]

\* ForceGraph copies links and nodes and simulates the copies; data is the
\* tree object as the call leaves it, nodes are the objects drawn
ForceGraph(data) ==
  [data |-> data, nodes |-> simulated(data.nodes)]

\* the provider fails and yet hands out the part of the tree it has read
fetchUniversalTreeFailsPartial ==
  /\ isLoadingQuery
  /\ isLoadingQuery' = FALSE
  /\ errorQuery' = TRUE
  /\ universalTree' = Some([nodes |-> mockTreeData.nodes, links |-> <<>>])
  /\ last' = Op("fetchUniversalTree", "error")
  /\ UNCHANGED <<treeRequests, searchTerm, searchResults, isSearchActive,
                 selectedResultId, pathTree, selectedNodeIds, inFlight>>

\* the universal tree query resolves with the tree; Search then renders the
\* chart, whose effect runs ForceGraph on the tree
fetchUniversalTreeSucceeds ==
  /\ isLoadingQuery
  /\ isLoadingQuery' = FALSE
  /\ universalTree' = Some(ForceGraph(mockTreeData).data)
  /\ last' = Op("fetchUniversalTree", "ok")
  /\ UNCHANGED <<treeRequests, errorQuery, searchTerm, searchResults, isSearchActive,
                 selectedResultId, pathTree, selectedNodeIds, inFlight>>

\* the universal tree query fails: network error, response not ok or body
\* not JSON
fetchUniversalTreeFails ==
  /\ isLoadingQuery
  /\ isLoadingQuery' = FALSE
  /\ errorQuery' = TRUE
  /\ last' = Op("fetchUniversalTree", "error")
  /\ UNCHANGED <<treeRequests, universalTree, searchTerm, searchResults, isSearchActive,
                 selectedResultId, pathTree, selectedNodeIds, inFlight>>

\* ----------------------------------------------------------- Search handlers
\* the earlier text box, which only stored the text
onChangeStoringTextOnly(value) ==
  /\ ~isLoadingQuery
  /\ value # searchTerm
  /\ searchTerm' = value
  /\ last' = Op("onChange", IF isSearchActive THEN "search active" ELSE "")
  /\ UNCHANGED <<treeRequests, isLoadingQuery, errorQuery, universalTree, selectedResultId,
                 pathTree, selectedNodeIds, inFlight, isSearchActive,
                 searchResults>>

\* the user edits the text of the search box
onChange(value) ==
  /\ ~isLoadingQuery
  /\ value # searchTerm
  /\ searchTerm' = value
  /\ IF trim(value) = <<>>
     THEN /\ isSearchActive' = FALSE
          /\ searchResults' = <<>>
     ELSE UNCHANGED <<isSearchActive, searchResults>>
  /\ last' = Op("onChange", IF isSearchActive THEN "search active" ELSE "")
  /\ UNCHANGED <<treeRequests, isLoadingQuery, errorQuery, universalTree, selectedResultId,
                 pathTree, selectedNodeIds, inFlight>>

\* a confirmed search that leaves an installed path in place
handleSearchKeepingPath(term) ==
  /\ ~isLoadingQuery
  /\ IF IsNull(universalTree) \/ trim(term) = <<>>
     THEN /\ searchResults' = <<>>
          /\ isSearchActive' = FALSE
          /\ UNCHANGED <<selectedResultId, pathTree, inFlight>>
     ELSE /\ searchResults' = searchNodes(term, Value(universalTree))
          /\ isSearchActive' = TRUE
          /\ selectedResultId' = NullId
          /\ inFlight' = Superseded(inFlight)
          /\ UNCHANGED pathTree
  /\ last' = Op("handleSearch",
                 IF Len(pathNodeIds) > 0 THEN "path active" ELSE "")
  /\ UNCHANGED <<treeRequests, isLoadingQuery, errorQuery, universalTree, searchTerm,
                 selectedNodeIds>>

\* a confirmed search that keeps the selected result
handleSearchKeepingTarget(term) ==
  /\ ~isLoadingQuery
  /\ IF IsNull(universalTree) \/ trim(term) = <<>>
     THEN /\ searchResults' = <<>>
          /\ isSearchActive' = FALSE
          /\ UNCHANGED <<pathTree, inFlight>>
     ELSE /\ searchResults' = searchNodes(term, Value(universalTree))
          /\ isSearchActive' = TRUE
          /\ pathTree' = Null
          /\ inFlight' = Superseded(inFlight)
  /\ last' = Op("handleSearch",
                 IF Len(pathNodeIds) > 0 THEN "path active" ELSE "")
  /\ UNCHANGED <<treeRequests, isLoadingQuery, errorQuery, universalTree,
                 searchTerm, selectedNodeIds, selectedResultId>>

\* a confirmed search that asks the server for the tree again
handleSearchRefetching(term) ==
  /\ ~isLoadingQuery
  /\ IF IsNull(universalTree) \/ trim(term) = <<>>
     THEN /\ searchResults' = <<>>
          /\ isSearchActive' = FALSE
          /\ UNCHANGED <<selectedResultId, pathTree, inFlight, treeRequests>>
     ELSE /\ searchResults' = searchNodes(term, Value(universalTree))
          /\ isSearchActive' = TRUE
          /\ selectedResultId' = NullId
          /\ pathTree' = Null
          /\ inFlight' = Superseded(inFlight)
          /\ treeRequests' = IF treeRequests = initialTreeRequests
                             THEN treeRequests + 1
                             ELSE treeRequests
  /\ last' = Op("handleSearch",
                 IF Len(pathNodeIds) > 0 THEN "path active" ELSE "")
  /\ UNCHANGED <<isLoadingQuery, errorQuery, universalTree, searchTerm,
                 selectedNodeIds>>

\* the user presses Enter in the search box: handleKeyDown calls
\* handleSearch(searchTerm)
handleSearch(term) ==
  /\ ~isLoadingQuery
  /\ IF IsNull(universalTree) \/ trim(term) = <<>>
     THEN /\ searchResults' = <<>>
          /\ isSearchActive' = FALSE
          /\ UNCHANGED <<selectedResultId, pathTree, inFlight>>
     ELSE /\ searchResults' = searchNodes(term, Value(universalTree))
          /\ isSearchActive' = TRUE
          /\ selectedResultId' = NullId
          /\ pathTree' = Null
          /\ inFlight' = Superseded(inFlight)
  /\ last' = Op("handleSearch",
                 IF Len(pathNodeIds) > 0 THEN "path active" ELSE "")
  /\ UNCHANGED <<treeRequests, isLoadingQuery, errorQuery, universalTree, searchTerm,
                 selectedNodeIds>>

handleKeyDown == handleSearch(searchTerm)

\* the user clicks an entry of the result list
selectResult(nodeId) ==
  /\ ~isLoadingQuery
  /\ isSearchActive
  /\ nodeId \in Elems(ids(searchResults))
  /\ selectedResultId' = nodeId
  /\ pathTree' = Null
  /\ last' = Op("selectResult", nodeId)
  /\ UNCHANGED <<treeRequests, isLoadingQuery, errorQuery, universalTree, searchTerm,
                 searchResults, isSearchActive, selectedNodeIds, inFlight>>

\* a path request that also drops the clicked nodes
handleGeneratePathClearingSelection ==
  /\ ~isLoadingQuery
  /\ generatePathButtonShown
  /\ IF selectedResultId = NullId
     THEN /\ UNCHANGED <<searchResults, pathTree, inFlight, selectedNodeIds>>
          /\ last' = Op("handleGeneratePath", selectedResultId)
     ELSE /\ Len(inFlight) < MaxInFlight
          /\ searchResults' = <<>>
          /\ pathTree' = Null
          /\ selectedNodeIds' = <<>>
          /\ inFlight' = Append(Superseded(inFlight),
                                Request(selectedResultId))
          /\ last' = [Op("handleGeneratePath", selectedResultId)
                        EXCEPT !.req = "waiting"]
  /\ UNCHANGED <<treeRequests, isLoadingQuery, errorQuery, universalTree, searchTerm,
                 isSearchActive, selectedResultId>>

\* a path request that leaves the search highlights in place
handleGeneratePathKeepingHighlights ==
  /\ ~isLoadingQuery
  /\ generatePathButtonShown
  /\ IF selectedResultId = NullId
     THEN /\ UNCHANGED <<pathTree, inFlight>>
          /\ last' = Op("handleGeneratePath", selectedResultId)
     ELSE /\ Len(inFlight) < MaxInFlight
          /\ pathTree' = Null
          /\ inFlight' = Append(Superseded(inFlight),
                                Request(selectedResultId))
          /\ last' = [Op("handleGeneratePath", selectedResultId)
                        EXCEPT !.req = "waiting"]
  /\ UNCHANGED <<treeRequests, isLoadingQuery, errorQuery, universalTree, searchTerm,
                 isSearchActive, selectedResultId, selectedNodeIds,
                 searchResults>>

\* a handler without the check for a selected result
handleGeneratePathUnguarded ==
  /\ ~isLoadingQuery
  /\ generatePathButtonShown
  /\ Len(inFlight) < MaxInFlight
  /\ searchResults' = <<>>
  /\ pathTree' = Null
  /\ inFlight' = Append(Superseded(inFlight), Request(selectedResultId))
  /\ last' = [Op("handleGeneratePath", selectedResultId)
                EXCEPT !.req = "waiting"]
  /\ UNCHANGED <<treeRequests, isLoadingQuery, errorQuery, universalTree, searchTerm,
                 isSearchActive, selectedResultId, selectedNodeIds>>

\* the user clicks Generate Learning Path; the button is disabled while no
\* result is selected and the handler returns at once in that case
handleGeneratePath ==
  /\ ~isLoadingQuery
  /\ generatePathButtonShown
  /\ IF selectedResultId = NullId
     THEN /\ UNCHANGED <<searchResults, pathTree, inFlight>>
          /\ last' = Op("handleGeneratePath", selectedResultId)
     ELSE /\ Len(inFlight) < MaxInFlight
          /\ searchResults' = <<>>
          /\ pathTree' = Null
          /\ inFlight' = Append(Superseded(inFlight),
                                Request(selectedResultId))
          /\ last' = [Op("handleGeneratePath", selectedResultId)
                        EXCEPT !.req = "waiting"]
  /\ UNCHANGED <<treeRequests, isLoadingQuery, errorQuery, universalTree, searchTerm,
                 isSearchActive, selectedResultId, selectedNodeIds>>

\* the sequence without its i-th element
RemoveAt(seq, i) == SubSeq(seq, 1, i - 1) \o SubSeq(seq, i + 1, Len(seq))

\* an installation that also empties the result list
pathRequestSucceedsClearingSearch(i, tree) ==
  /\ i \in 1..Len(inFlight)
  /\ tree \in PathAnswers(inFlight[i].target)
  /\ pathTree' = Some([nodes |-> tree.nodes, links |-> tree.links])
  /\ searchResults' = <<>>
  /\ inFlight' = RemoveAt(inFlight, i)
  /\ last' = Response("pathRequestSucceeds", i)
  /\ UNCHANGED <<treeRequests, isLoadingQuery, errorQuery, universalTree, searchTerm,
                 isSearchActive, selectedResultId, selectedNodeIds>>

\* a response that is applied and stays pending
pathRequestSucceedsRepeating(i, tree) ==
  /\ i \in 1..Len(inFlight)
  /\ tree \in PathAnswers(inFlight[i].target)
  /\ pathTree' = Some([nodes |-> tree.nodes, links |-> tree.links])
  /\ last' = Response("pathRequestSucceeds", i)
  /\ UNCHANGED <<treeRequests, isLoadingQuery, errorQuery, universalTree,
                 searchTerm, searchResults, isSearchActive, selectedResultId,
                 selectedNodeIds, inFlight>>

\* the response of the i-th pending path request arrives with a tree
pathRequestSucceeds(i, tree) ==
  /\ i \in 1..Len(inFlight)
  /\ tree \in PathAnswers(inFlight[i].target)
  /\ pathTree' = Some([nodes |-> tree.nodes, links |-> tree.links])
  /\ inFlight' = RemoveAt(inFlight, i)
  /\ last' = Response("pathRequestSucceeds", i)
  /\ UNCHANGED <<treeRequests, isLoadingQuery, errorQuery, universalTree, searchTerm,
                 searchResults, isSearchActive, selectedResultId,
                 selectedNodeIds>>

\* a catch block that installs a tree without nodes for the failure
pathRequestFailsEmptyPath(i, kind) ==
  /\ i \in 1..Len(inFlight)
  /\ kind \in FailureKinds
  /\ pathTree' = Some(emptyTree)
  /\ inFlight' = RemoveAt(inFlight, i)
  /\ last' = [Response("pathRequestFails", i) EXCEPT !.logged = kind]
  /\ UNCHANGED <<treeRequests, isLoadingQuery, errorQuery, universalTree, searchTerm,
                 searchResults, isSearchActive, selectedResultId,
                 selectedNodeIds>>

\* a catch block that only logs
pathRequestFailsKeepingPath(i, kind) ==
  /\ i \in 1..Len(inFlight)
  /\ kind \in FailureKinds
  /\ inFlight' = RemoveAt(inFlight, i)
  /\ last' = [Response("pathRequestFails", i) EXCEPT !.logged = kind]
  /\ UNCHANGED <<treeRequests, isLoadingQuery, errorQuery, universalTree, searchTerm,
                 searchResults, isSearchActive, selectedResultId,
                 selectedNodeIds, pathTree>>

\* the i-th pending path request fails and the catch block runs
pathRequestFails(i, kind) ==
  /\ i \in 1..Len(inFlight)
  /\ kind \in FailureKinds
  /\ pathTree' = Null
  /\ inFlight' = RemoveAt(inFlight, i)
  /\ last' = [Response("pathRequestFails", i) EXCEPT !.logged = kind]
  /\ UNCHANGED <<treeRequests, isLoadingQuery, errorQuery, universalTree, searchTerm,
                 searchResults, isSearchActive, selectedResultId,
                 selectedNodeIds>>

\* -------------------------------------------------- SearchPageChart handler
\* an updater that adds the node without looking for it first
toggleAlwaysAdds(prevSelected, nodeId) == prevSelected \o <<nodeId>>

\* an updater that keeps a single selected node
toggleSingleSelection(prevSelected, nodeId) ==
  IF nodeId \in Elems(prevSelected) THEN <<>> ELSE <<nodeId>>

\* the state updater of handleNodeClick
toggle(prevSelected, nodeId) ==
  IF nodeId \in Elems(prevSelected)
  THEN filter(prevSelected, Elems(prevSelected) \ {nodeId})
  ELSE prevSelected \o <<nodeId>>

\* the user clicks a node of the chart
handleNodeClick(nodeId) ==
  /\ ~isLoadingQuery
  /\ ~IsNull(universalTree)
  /\ nodeId \in NodeIds
  /\ selectedNodeIds' = toggle(selectedNodeIds, nodeId)
  /\ last' = IF last.op = "handleNodeClick" /\ last.arg = nodeId /\ last.n = 1
             THEN [Op("handleNodeClick", nodeId) EXCEPT
                     !.n = 2, !.pre = last.pre]
             ELSE [Op("handleNodeClick", nodeId) EXCEPT
                     !.n = 1, !.pre = Elems(selectedNodeIds)]
  /\ UNCHANGED <<treeRequests, isLoadingQuery, errorQuery, universalTree, searchTerm,
                 searchResults, isSearchActive, selectedResultId, pathTree,
                 inFlight>>

\* ---------------------------------------------------------- specification
Next ==
  \/ fetchUniversalTreeSucceeds
  \/ fetchUniversalTreeFails
  \/ \E value \in Queries : onChange(value)
  \/ handleKeyDown
  \/ \E nodeId \in NodeIds : selectResult(nodeId)
  \/ handleGeneratePath
  \/ \E i \in 1..Len(inFlight) : \E tree \in PathAnswers(inFlight[i].target) :
       pathRequestSucceeds(i, tree)
  \/ \E i \in 1..Len(inFlight), kind \in FailureKinds :
       pathRequestFails(i, kind)
  \/ \E nodeId \in NodeIds : handleNodeClick(nodeId)

Spec == Init /\ [][Next]_vars

\* a pending request gets its response or its failure
pathRequestCompletes ==
  \/ \E i \in 1..Len(inFlight) : \E tree \in PathAnswers(inFlight[i].target) :
       pathRequestSucceeds(i, tree)
  \/ \E i \in 1..Len(inFlight), kind \in FailureKinds :
       pathRequestFails(i, kind)

\* the remote service answers or fails every request in the end
LiveSpec == Init /\ [][Next]_vars /\ WF_vars(pathRequestCompletes)

TypeOK ==
  /\ isLoadingQuery \in BOOLEAN
  /\ isSearchActive \in BOOLEAN
  /\ searchTerm \in Queries
  /\ Len(inFlight) <= MaxInFlight
  /\ selectedResultId \in NodeIds \cup {NullId}

\* ================================================================== claims
\* the text is empty or consists of white space only
IsBlank(text) == \A i \in 1..Len(text) : text[i] = " "

\* q occurs in s as a run of consecutive characters
OccursIn(q, s) ==
  \E i \in 1..(Len(s) + 1) : \E j \in (i - 1)..Len(s) : SubSeq(s, i, j) = q

\* sub can be obtained from arr by deleting elements
IsSubsequence(sub, arr) ==
  \E f \in [1..Len(sub) -> 1..Len(arr)] :
    /\ \A i \in 1..Len(sub) : sub[i] = arr[f[i]]
    /\ \A i \in 1..Len(sub) : \A j \in 1..Len(sub) : i < j => f[i] < f[j]

\* no node of the loaded tree contains the text, case aside
NoNodeContains(text) ==
  \A n \in Elems(Value(universalTree).nodes) :
    ~OccursIn(toLowerCase(text), toLowerCase(n.name))

\* C1 - path precedence: whenever the installed path tree has at least one
\* node, the set of highlighted ids is exactly the set of ids of the nodes of
\* the path tree, whatever was clicked or found by the search.
C1_PathPrecedence ==
  (~IsNull(pathTree) /\ Len(Value(pathTree).nodes) > 0) =>
    Elems(allSelectedNodeIds) =
      {Value(pathTree).nodes[i].id : i \in 1..Len(Value(pathTree).nodes)}

\* a path is installed while a clicked node outside the path and search
\* results are both present
C1_Witness ==
  /\ ~IsNull(pathTree)
  /\ Len(Value(pathTree).nodes) > 0
  /\ Elems(selectedNodeIds) \ Elems(pathNodeIds) # {}
  /\ searchResults # <<>>

\* C2 - union rule: whenever no path tree is installed or the installed path
\* tree has no nodes, the highlighted ids are the clicked ids together with
\* the ids of the search results, each listed once.
C2_UnionRule ==
  (IsNull(pathTree) \/ Len(Value(pathTree).nodes) = 0) =>
    /\ Elems(allSelectedNodeIds) =
         Elems(selectedNodeIds) \cup
           {searchResults[i].id : i \in 1..Len(searchResults)}
    /\ Cardinality(Elems(allSelectedNodeIds)) = Len(allSelectedNodeIds)

\* a path tree without nodes is installed and a node is both clicked and a
\* search result
C2_Witness ==
  /\ ~IsNull(pathTree)
  /\ Len(Value(pathTree).nodes) = 0
  /\ Elems(selectedNodeIds) \cap Elems(highlightedNodeIds) # {}
  /\ Elems(selectedNodeIds) \ Elems(highlightedNodeIds) # {}

\* C3 - search matching: for every text the search box can hold and every
\* node of the tree, skill or url, the node is in the result of the search
\* for that text exactly if its lower-cased name contains the lower-cased
\* text; the results of a confirmed search that ran the engine obey the same
\* rule.
C3_SearchMatching ==
  ~IsNull(universalTree) =>
    LET tree == Value(universalTree) IN
    /\ \A n \in Elems(tree.nodes) :
         (n \in Elems(searchNodes(searchTerm, tree))) <=>
           OccursIn(toLowerCase(searchTerm), toLowerCase(n.name))
    /\ (last.op = "handleSearch" /\ isSearchActive) =>
         \A n \in Elems(tree.nodes) :
           (n \in Elems(searchResults)) <=>
             OccursIn(toLowerCase(searchTerm), toLowerCase(n.name))

\* a confirmed search in upper case found a url node by the lower-case part
\* of its name and left out the skill node
C3_Witness ==
  /\ last.op = "handleSearch"
  /\ isSearchActive
  /\ \E i \in 1..Len(searchResults) : searchResults[i].type = "url"
  /\ Len(searchResults) < Len(Value(universalTree).nodes)
  /\ \E i \in 1..Len(searchTerm) : searchTerm[i] # LowerChar(searchTerm[i])

\* C4 - search ordering: the result list, and the result of the search for
\* any text the search box can hold, is a subsequence of the node list of
\* the tree: the matching nodes in their original order, none twice.
C4_SearchOrdering ==
  IF IsNull(universalTree)
  THEN searchResults = <<>>
  ELSE LET tree == Value(universalTree) IN
       /\ IsSubsequence(searchResults, tree.nodes)
       /\ IsSubsequence(searchNodes(searchTerm, tree), tree.nodes)

\* a confirmed search found the skill and the url, in the order of the tree
C4_Witness ==
  /\ last.op = "handleSearch"
  /\ Len(searchResults) = 2
  /\ searchResults[1].id = "1"
  /\ searchResults[2].id = "2"

\* what a confirmed search with the given text leaves as the result list
ResultsOfConfirming(text) ==
  IF IsNull(universalTree) \/ IsBlank(text)
  THEN <<>>
  ELSE searchNodes(text, Value(universalTree))

\* the text without its leading and trailing blanks
Stripped(text) ==
  LET keep == {i \in 1..Len(text) :
                 /\ \E j \in 1..i : text[j] # " "
                 /\ \E j \in i..Len(text) : text[j] # " "}
  IN [k \in 1..Cardinality(keep) |->
        text[CHOOSE i \in keep : Cardinality({j \in keep : j <= i}) = k]]

\* C5 - the query is trimmed before matching: a confirmed search leaves the
\* same result list as a confirmed search with the text stripped of leading
\* and trailing white space.
C5_QueryTrimmed ==
  last.op = "handleSearch" =>
    searchResults = ResultsOfConfirming(Stripped(searchTerm))

\* C6 - a confirmed search with an empty or white-space-only text leaves the
\* search inactive with no search highlights, and the card then shows the
\* recommendations, which differs from what it shows after a search that ran
\* and matched nothing (a count of zero and the no-results message).
C6_BlankQueryInactive ==
  /\ (last.op = "handleSearch" /\ IsBlank(searchTerm)) =>
       /\ ~isSearchActive
       /\ searchResults = <<>>
       /\ highlightedNodeIds = <<>>
       /\ resultsSection.heading = "Recommended Skills"
       /\ ~resultsSection.noResultsFound
  /\ (/\ last.op = "handleSearch"
      /\ ~IsBlank(searchTerm)
      /\ ~IsNull(universalTree)
      /\ NoNodeContains(searchTerm)) =>
       /\ isSearchActive
       /\ resultsSection.heading = "results found"

\* Enter was pressed on a text of blanks only, with the tree loaded
C6_Witness ==
  /\ last.op = "handleSearch"
  /\ searchTerm # <<>>
  /\ IsBlank(searchTerm)
  /\ ~IsNull(universalTree)

\* C7 - a confirmed search with a text that is not blank and matches no node
\* makes the search active with an empty result list and the no-results
\* message; no error is raised and the clicked ids and the universal tree
\* are as before.
C7_ZeroMatches ==
  [][(/\ last'.op = "handleSearch"
      /\ ~IsBlank(searchTerm)
      /\ ~IsNull(universalTree)
      /\ NoNodeContains(searchTerm)) =>
       /\ isSearchActive'
       /\ searchResults' = <<>>
       /\ resultsSection'.count = 0
       /\ resultsSection'.noResultsFound
       /\ errorQuery' = errorQuery
       /\ selectedNodeIds' = selectedNodeIds
       /\ universalTree' = universalTree]_vars

\* a search that matched nothing was confirmed while nodes were clicked
C7_Witness ==
  /\ last.op = "handleSearch"
  /\ isSearchActive
  /\ searchResults = <<>>
  /\ resultsSection.noResultsFound
  /\ selectedNodeIds # <<>>

\* C8 as stated - search supersedes path: every confirmed search made while a
\* path is highlighted removes the path and the selected target, and the
\* highlighted ids are then the new search ids together with the clicked
\* ids.
C8_SearchSupersedesPath_Original ==
  [][(last'.op = "handleSearch" /\ Len(pathNodeIds) > 0) =>
       /\ pathNodeIds' = <<>>
       /\ selectedResultId' = NullId
       /\ Elems(selectedIdsFor(pathNodeIds', selectedNodeIds',
                               highlightedNodeIds')) =
            Elems(highlightedNodeIds') \cup Elems(selectedNodeIds')]_vars

\* C8 - search supersedes path, for a text that is not blank: a confirmed
\* search made while a path is highlighted removes the path and the selected
\* target, and the highlighted ids are then the new search ids together with
\* the clicked ids; with an empty or white-space-only text the path and the
\* selected target stay as they are.
C8_SearchSupersedesPath ==
  [][(last'.op = "handleSearch" /\ Len(pathNodeIds) > 0) =>
       IF IsBlank(searchTerm)
       THEN /\ pathTree' = pathTree
            /\ selectedResultId' = selectedResultId
       ELSE /\ pathNodeIds' = <<>>
            /\ IsNull(pathTree')
            /\ selectedResultId' = NullId
            /\ Elems(highlightedNodeIds') =
                 {n.id : n \in {m \in Elems(Value(universalTree).nodes) :
                    OccursIn(toLowerCase(searchTerm), toLowerCase(m.name))}}
            /\ Elems(selectedIdsFor(pathNodeIds', selectedNodeIds',
                                    highlightedNodeIds')) =
                 Elems(highlightedNodeIds') \cup Elems(selectedNodeIds')
            /\ selectedNodeIds' = selectedNodeIds]_vars

\* a search was confirmed while a path was highlighted and removed it; the
\* highlight now comes from the search and from a click
C8_Witness ==
  /\ last.op = "handleSearch"
  /\ last.arg = "path active"
  /\ IsNull(pathTree)
  /\ searchResults # <<>>
  /\ Elems(selectedNodeIds) \ Elems(highlightedNodeIds) # {}

\* C9 - manual toggle is an involution: after two clicks in a row on the same
\* node the set of clicked ids is the set it was before the first of them.
C9_ToggleTwice ==
  (last.op = "handleNodeClick" /\ last.n = 2) =>
    Elems(selectedNodeIds) = last.pre

\* a node was clicked off and on again while another stayed selected
C9_Witness ==
  /\ last.op = "handleNodeClick"
  /\ last.n = 2
  /\ Cardinality(last.pre) >= 2
  /\ last.arg \in last.pre
  /\ selectedNodeIds[Len(selectedNodeIds)] = last.arg

\* C10 - a click on a node flips whether that node is among the clicked ids
\* and changes nothing else: every other id keeps its membership, and the
\* search results, the path, the search-active flag and the selected target
\* are as before.
C10_ToggleFrame ==
  [][last'.op = "handleNodeClick" =>
       /\ (last'.arg \in Elems(selectedNodeIds')) <=>
            (last'.arg \notin Elems(selectedNodeIds))
       /\ \A y \in NodeIds \ {last'.arg} :
            (y \in Elems(selectedNodeIds')) <=> (y \in Elems(selectedNodeIds))
       /\ searchResults' = searchResults
       /\ pathTree' = pathTree
       /\ isSearchActive' = isSearchActive
       /\ selectedResultId' = selectedResultId]_vars

\* a node was clicked off while another stayed selected, with search results
\* listed and a path installed
C10_Witness ==
  /\ last.op = "handleNodeClick"
  /\ last.arg \notin Elems(selectedNodeIds)
  /\ selectedNodeIds # <<>>
  /\ searchResults # <<>>
  /\ ~IsNull(pathTree)
  /\ selectedResultId # NullId

\* the highlighted ids after the step
allSelectedNodeIdsAfter ==
  selectedIdsFor(pathNodeIds', selectedNodeIds', highlightedNodeIds')

\* C11 - the clicked ids are changed by a node click only: a confirmed
\* search, an edit of the query text, the choice of a result, a path request
\* and the completion of a path request all leave them as they were.
C11_ManualPersists ==
  [][last'.op # "handleNodeClick" => selectedNodeIds' = selectedNodeIds]_vars

\* a path request has just been issued while two nodes are clicked
C11_Witness ==
  /\ last.op = "handleGeneratePath"
  /\ last.req = "waiting"
  /\ Len(selectedNodeIds) = 2

\* C12 - installing a path changes the path only: the clicked ids and the
\* search results keep the values they had just before; and in the step that
\* takes the path away the highlighted ids are again the clicked ids together
\* with the ids of the search results.
C12_InstallFrame ==
  [][/\ last'.op = "pathRequestSucceeds" =>
          /\ selectedNodeIds' = selectedNodeIds
          /\ searchResults' = searchResults
          /\ isSearchActive' = isSearchActive
     /\ (Len(pathNodeIds) > 0 /\ Len(pathNodeIds') = 0) =>
          Elems(allSelectedNodeIdsAfter) =
            Elems(selectedNodeIds') \cup Elems(highlightedNodeIds')]_vars

\* a response has just installed a path with nodes while a node is clicked
\* and a later search has left results
C12_Witness ==
  /\ last.op = "pathRequestSucceeds"
  /\ Len(pathNodeIds) > 0
  /\ selectedNodeIds # <<>>
  /\ searchResults # <<>>

\* C13 - editing the query text to an empty or white-space-only text empties
\* the search results and makes the search inactive; no result list is
\* computed, no request is issued and the clicked ids are unchanged.
C13_EditToBlank ==
  [][(last'.op = "onChange" /\ IsBlank(searchTerm')) =>
       /\ searchResults' = <<>>
       /\ ~isSearchActive'
       /\ inFlight' = inFlight
       /\ selectedNodeIds' = selectedNodeIds]_vars

\* the text of an active search has just been edited to white space that
\* some node name contains, while a node is clicked
C13_Witness ==
  /\ last.op = "onChange"
  /\ last.arg = "search active"
  /\ IsBlank(searchTerm)
  /\ ~IsNull(universalTree)
  /\ searchNodes(searchTerm, Value(universalTree)) # <<>>
  /\ searchResults = <<>>
  /\ selectedNodeIds # <<>>

\* C14 (as stated) - whenever the query text is edited or a new path is
\* requested, the search results and the path are both empty right after.
C14_EditOrRequestClears_Original ==
  [][(\/ last'.op = "onChange"
      \/ (last'.op = "handleGeneratePath" /\ selectedResultId # NullId)) =>
       (searchResults' = <<>> /\ pathNodeIds' = <<>>)]_vars

\* C14 - whenever a new path is requested for a selected result, the search
\* results and the path are both empty right after; an edit of the query
\* text never changes the path, empties the search results when the new text
\* is blank and leaves them as they were otherwise.
C14_EditOrRequestClears ==
  [][/\ (last'.op = "handleGeneratePath" /\ selectedResultId # NullId) =>
          (searchResults' = <<>> /\ pathNodeIds' = <<>> /\ IsNull(pathTree'))
     /\ last'.op = "onChange" =>
          /\ pathTree' = pathTree
          /\ searchResults' =
               (IF IsBlank(searchTerm') THEN <<>> ELSE searchResults)]_vars

\* a second path request has just been issued while the first is pending
C14_Witness ==
  /\ last.op = "handleGeneratePath"
  /\ last.req = "waiting"
  /\ Len(inFlight) = 2
  /\ searchResults = <<>>
  /\ IsNull(pathTree)

\* C15 - a path request with no result selected does nothing: no request is
\* issued and the search results, the path, the clicked ids, the active flag
\* and the selected result are unchanged.
C15_NoTargetNoOp ==
  [][(last'.op = "handleGeneratePath" /\ selectedResultId = NullId) =>
       /\ inFlight' = inFlight
       /\ searchResults' = searchResults
       /\ pathTree' = pathTree
       /\ selectedNodeIds' = selectedNodeIds
       /\ isSearchActive' = isSearchActive
       /\ selectedResultId' = selectedResultId]_vars

\* the handler has just run with no result selected while results are
\* listed and a node is clicked
C15_Witness ==
  /\ last.op = "handleGeneratePath"
  /\ last.arg = NullId
  /\ selectedResultId = NullId
  /\ searchResults # <<>>
  /\ selectedNodeIds # <<>>

\* C16 - clear before request: when a path request has been issued, the
\* search results and the path are empty with the request pending, and they
\* stay empty for as long as that request is pending and the user does
\* nothing else.
C16_ClearBeforeRequest ==
  last.req = "waiting" =>
    /\ inFlight # <<>>
    /\ searchResults = <<>>
    /\ pathNodeIds = <<>>

\* C17 - when the response to the path request issued last arrives with a
\* tree of at least one node and nothing happened in between, that tree is
\* the installed path and the highlighted ids are exactly the ids of its
\* nodes, whatever nodes were clicked before the request.
C17_SuccessInstalls ==
  [][(/\ last.op = "handleGeneratePath"
      /\ last.req = "waiting"
      /\ last'.op = "pathRequestSucceeds"
      /\ last'.req = "answered"
      /\ Len(pathNodeIds') > 0) =>
       /\ pathTree' = Some(mockPath(startNodeId, last.arg))
       /\ Elems(allSelectedNodeIdsAfter) =
            {Value(pathTree').nodes[k].id :
               k \in 1..Len(Value(pathTree').nodes)}
       /\ selectedNodeIds' = selectedNodeIds]_vars

\* the response to the latest request has just installed a path with nodes
\* while a node outside the path is clicked
C17_Witness ==
  /\ last.op = "pathRequestSucceeds"
  /\ last.req = "answered"
  /\ ~last.stale
  /\ Len(pathNodeIds) > 0
  /\ Elems(selectedNodeIds) \ Elems(pathNodeIds) # {}
  /\ Elems(allSelectedNodeIds) = Elems(pathNodeIds)

\* C18 - when a path request fails, whether by a network error, a
\* non-success status or an unreadable body, no path tree is installed
\* afterwards, neither a partial nor an empty one; the failure is logged and
\* no error leaves the handler.
C18_FailureLeavesNoPath ==
  [][last'.op = "pathRequestFails" =>
       /\ IsNull(pathTree')
       /\ last'.logged \in FailureKinds
       /\ ~last'.thrown
       /\ Len(inFlight') = Len(inFlight) - 1]_vars

\* a request has just failed with a non-success status
C18_Witness ==
  /\ last.op = "pathRequestFails"
  /\ last.logged = "status"
  /\ IsNull(pathTree)

\* C19 (as stated) - after a path request fails the highlighted ids are
\* empty and no path tree is installed.
C19_AfterFailure_Original ==
  [][(/\ last.op = "handleGeneratePath"
      /\ last.req = "waiting"
      /\ last'.op = "pathRequestFails") =>
       (IsNull(pathTree') /\ allSelectedNodeIdsAfter = <<>>)]_vars

\* C19 - after a path request fails no path tree is installed and the
\* highlighted ids are the clicked ids together with the ids of the search
\* results; when nothing happened since the request was issued the search
\* results are still empty, so the highlighted ids are the clicked ids, and
\* they are empty when no node is clicked.
C19_AfterFailure ==
  [][last'.op = "pathRequestFails" =>
       /\ IsNull(pathTree')
       /\ Elems(allSelectedNodeIdsAfter) =
            Elems(selectedNodeIds') \cup Elems(highlightedNodeIds')
       /\ (last.op = "handleGeneratePath" /\ last.req = "waiting") =>
            /\ highlightedNodeIds' = <<>>
            /\ allSelectedNodeIdsAfter = selectedNodeIds
            /\ selectedNodeIds = <<>> => allSelectedNodeIdsAfter = <<>>]_vars

\* the latest request has just failed while a node is clicked
C19_Witness ==
  /\ last.op = "pathRequestFails"
  /\ last.req = "answered"
  /\ selectedNodeIds # <<>>
  /\ searchResults = <<>>
  /\ allSelectedNodeIds = selectedNodeIds

\* C20 - stale responses are discarded: the response to a request that was
\* pending when a search was confirmed or a newer request was issued does
\* not install its tree.
C20_StaleDiscarded ==
  [][(last'.op = "pathRequestSucceeds" /\ last'.stale) =>
       pathTree' = pathTree]_vars

\* C21 - a path request is issued only while a search is active with a
\* non-empty result list, and its target is the id of a node of the result
\* list shown at that moment.
C21_RequestFromCurrentResults ==
  [][(last'.op = "handleGeneratePath" /\ Len(inFlight') > Len(inFlight)) =>
       /\ isSearchActive
       /\ searchResults # <<>>
       /\ inFlight'[Len(inFlight')].target \in Elems(highlightedNodeIds)]_vars

\* a request for the url node has just been issued from the results of a
\* search that the skill node does not match
C21_Witness ==
  /\ last.op = "handleGeneratePath"
  /\ last.req = "waiting"
  /\ inFlight[Len(inFlight)].target = "2"
  /\ searchTerm = <<"A", " ">>
  /\ isSearchActive

\* C22 - a confirmed search filters the loaded tree and asks the server for
\* nothing: the number of GET /tree requests stays the number made by the
\* load and no path request is added.
C22_SearchIsLocal ==
  [][last'.op = "handleSearch" =>
       /\ treeRequests' = treeRequests
       /\ treeRequests' = initialTreeRequests
       /\ Len(inFlight') = Len(inFlight)
       /\ Elems(searchResults') \subseteq
            (IF IsNull(universalTree) THEN {}
             ELSE Elems(Value(universalTree).nodes))]_vars

\* a search has just been confirmed and found nodes, with the tree fetched
\* once
C22_Witness ==
  /\ last.op = "handleSearch"
  /\ isSearchActive
  /\ Len(searchResults) = 2
  /\ treeRequests = initialTreeRequests

\* the ids to highlight, from the clicked ids, the search results and the
\* path
EffectiveSet ==
  IF pathNodeIds # <<>>
  THEN Elems(pathNodeIds)
  ELSE Elems(selectedNodeIds) \cup Elems(highlightedNodeIds)

\* the circle has the active fill of its type
HasActiveFill(c) ==
  c.fill = (IF c.type = "skill" THEN ACTIVE_SKILL_FILL ELSE ACTIVE_MODULE_FILL)

\* C23 - every circle of the chart has the active fill of its type exactly
\* when its id is in the set of ids to highlight; so a node clicked while
\* unselected and with no path shown is highlighted, and after a confirmed
\* search every matching node is highlighted.
C23_RenderingFollows ==
  /\ \A i \in 1..Len(circles) :
       HasActiveFill(circles[i]) <=> circles[i].id \in EffectiveSet
  /\ (/\ last.op = "handleNodeClick"
      /\ last.n = 1
      /\ last.arg \notin last.pre
      /\ pathNodeIds = <<>>) =>
       \A i \in 1..Len(circles) :
         circles[i].id = last.arg => HasActiveFill(circles[i])
  /\ (last.op = "handleSearch" /\ isSearchActive) =>
       \A i \in 1..Len(circles) :
         nodeIsMatch(Value(universalTree).nodes[i], searchTerm) =>
           HasActiveFill(circles[i])

\* a click has just highlighted the url node while the skill node is not
\* highlighted
C23_Witness ==
  /\ last.op = "handleNodeClick"
  /\ last.n = 1
  /\ last.arg = "2"
  /\ \E i \in 1..Len(circles) : circles[i].fill = ACTIVE_MODULE_FILL
  /\ \E i \in 1..Len(circles) : circles[i].fill = INACTIVE_SKILL_FILL

C25_UniversalTreeReadOnly ==
  ~IsNull(universalTree) => universalTree = Some(mockTreeData)

\* a path with nodes has just been installed beside the loaded tree, after
\* clicks on both nodes
C25_Witness ==
  /\ last.op = "pathRequestSucceeds"
  /\ Len(pathNodeIds) > 0
  /\ Len(selectedNodeIds) = 2
  /\ Value(pathTree) # Value(universalTree)
  /\ circles # <<>>

\* C26 (as stated) - the selected result becomes non-null only through the
\* choice of a result, and it is null right after every confirmed search and
\* right after every path installation.
C26_TargetLifecycle_Original ==
  [][/\ (selectedResultId = NullId /\ selectedResultId' # NullId) =>
          last'.op = "selectResult"
     /\ last'.op \in {"handleSearch", "pathRequestSucceeds"} =>
          selectedResultId' = NullId]_vars

\* C26 - the selected result becomes non-null only through the choice of a
\* result, and it is null right after every confirmed search of a text that
\* is not blank; a confirmed search of a blank text and a path installation
\* leave it as it was.
C26_TargetLifecycle ==
  [][/\ (selectedResultId = NullId /\ selectedResultId' # NullId) =>
          last'.op = "selectResult"
     /\ (last'.op = "handleSearch" /\ ~IsBlank(searchTerm)) =>
          selectedResultId' = NullId
     /\ (last'.op = "handleSearch" /\ IsBlank(searchTerm)) =>
          selectedResultId' = selectedResultId
     /\ last'.op = "pathRequestSucceeds" =>
          selectedResultId' = selectedResultId]_vars

\* a path has just been installed and the result chosen for it is still
\* selected
C26_Witness ==
  /\ last.op = "pathRequestSucceeds"
  /\ selectedResultId # NullId
  /\ selectedResultId = last.arg

\* C27 - path requests never overlap: at most one path request is pending
\* in every reachable state.
C27_NoOverlap == Len(inFlight) <= 1

\* C28 - the failure of a path request that a confirmed search or a newer
\* request has superseded leaves the installed path as it is.
C28_LateFailureKeepsPath ==
  [][(last'.op = "pathRequestFails" /\ last'.stale) =>
       pathTree' = pathTree]_vars

\* the search is active and lists no result
ZeroResultState == isSearchActive /\ searchResults = <<>>

\* C29 - the state of an active search without results is entered only by
\* confirming a text that is not blank and that no node matches.
C29_ZeroResultOnlyFromSearch ==
  [][(~ZeroResultState /\ ZeroResultState') =>
       /\ last'.op = "handleSearch"
       /\ ~IsBlank(searchTerm)
       /\ searchNodes(searchTerm, Value(universalTree)) = <<>>]_vars

\* the step is the arrival of a response or of a failure
IsCompletion ==
  last'.op \in {"pathRequestSucceeds", "pathRequestFails"}

====
